---- MODULE Spec2Model ----
(***************************************************************************)
(* State-machine model of decode_sbd_bytes (src/sbd_decoder.py): a linear  *)
(* cursor walk over a byte buffer.  One action per section of the          *)
(* function; `pc` is the position of the call, "returned" after any of its *)
(* return statements and "raised" after an exception left the function.    *)
(* The float-valued fields lat_deg / lon_deg and their formatted strings   *)
(* are functions of lat_enc / lon_enc and the configuration; of the        *)
(* conversion the model keeps what changes the control flow: the           *)
(* exceptions it raises.                                                   *)
(***************************************************************************)
EXTENDS Integers, Sequences, FiniteSets, TLC

\* ------------------------------------------------------------ bounds
\* Longest input buffer.
MaxLen == 45
\* TLV length bytes 0..MaxTlvLen are tried (and 255, the largest byte).
MaxTlvLen == 3

\* ------------------------------------------------- program constants
MinFrameLen == 13
HistEntrySize == 12
RecPeriodSize == 2
\* The largest finite double, 1.7976931348623157e308, lies between
\* DblMaxLead * 10^DblMaxExp and (DblMaxLead + 1) * 10^DblMaxExp.
DblMaxLead == 179769313
DblMaxExp == 300

\* ------------------------------------------------------------ inputs
\* A scale mant * 10^exp (ddmm_scale is a float).
ScaleValues ==
    { [mant |-> -1, exp |-> 0],
      [mant |-> 0, exp |-> 0],
      [mant |-> 1, exp |-> 0],
      [mant |-> 1, exp |-> 4],
      [mant |-> 1, exp |-> -300] }

\* Header byte1 values: the three flag bits and a reserved bit.
Byte1Values == {0, 1, 2, 6, 7, 8}

\* First byte of the current latitude: small, largest positive, negative.
LatLeadValues == {0, 10, 127, 128, 255}

TlvLenValues == (0 .. MaxTlvLen) \cup {255}

\* Bytes that the choices above do not set: distinct at distinct offsets.
Fill(i) == (7 * i + 216) % 256

\* The buffer of n bytes with byte1 at offset 1, the latitude's first byte
\* at offset 2 and the TLV length byte at offset 14.
MkData(n, b1, lat, tl) ==
    [k \in 1 .. n |->
        IF k = 2 THEN b1
        ELSE IF k = 3 THEN lat
        ELSE IF k = 15 THEN tl
        ELSE Fill(k - 1)]

VARIABLES
    data,            \* the input buffer (data[k] is the byte at offset k-1)
    ddmm_scale,      \* the configured scale
    pc,              \* position of the call
    idx,             \* the cursor
    result,          \* the record being filled
    reads,           \* every <<offset, count>> the call has read from data
    has_payload,     \* local has_payload
    history_entries, \* local history_entries
    leftover,        \* local leftover
    gnss_history,    \* local gnss_history
    i,               \* iterations of the history loop done
    exc              \* the exception that left the call ("" if none)

vars == <<data, ddmm_scale, pc, idx, result, reads, has_payload,
          history_entries, leftover, gnss_history, i, exc>>

\* ----------------------------------------------------------- helpers
Min(a, b) == IF a < b THEN a ELSE b
Max(a, b) == IF a > b THEN a ELSE b

RECURSIVE Pow256(_)
Pow256(e) == IF e <= 0 THEN 1 ELSE 256 * Pow256(e - 1)

\* A slice bound of Python: a negative one counts from the end, and both
\* are cut to the buffer.
SliceBound(k) == IF k < 0 THEN Max(k + Len(data), 0) ELSE Min(k, Len(data))

\* data[a:b] of Python: the bytes at offsets a .. b-1 that exist.
Slice(a, b) == SubSeq(data, SliceBound(a) + 1, SliceBound(b))

\* Whether data[k] of Python is an element (it raises IndexError otherwise).
InBuf(k) == k >= 0 /\ k < Len(data)

\* data[k] where it exists.
ByteAt(k) == IF InBuf(k) THEN data[k + 1] ELSE 0

\* int.from_bytes(s, byteorder="big", signed=False)
RECURSIVE UnsignedBE(_)
UnsignedBE(s) ==
    IF s = <<>> THEN 0
    ELSE s[1] * Pow256(Len(s) - 1) + UnsignedBE(Tail(s))

\* int.from_bytes(s, byteorder="big", signed=True)
SignedBE(s) ==
    IF s = <<>> THEN 0
    ELSE (IF s[1] >= 128 THEN s[1] - 256 ELSE s[1]) * Pow256(Len(s) - 1)
         + UnsignedBE(Tail(s))

\* (b >> k) & 1
Bit(b, k) == (b \div (2 ^ k)) % 2

\* Mutant: the flag is read from bit 1.
HasPayloadBitBit1(byte1) == Bit(byte1, 1) = 1

\* bool(byte1 & 0x01)
HasPayloadBit(byte1) == Bit(byte1, 0) = 1

\* _bytes_to_bits_msb_first
RECURSIVE BytesToBitsMsbFirst(_)
BytesToBitsMsbFirst(b) ==
    IF b = <<>> THEN <<>>
    ELSE [k \in 1 .. 8 |-> Bit(b[1], 8 - k)] \o BytesToBitsMsbFirst(Tail(b))

\* bytes.hex(): two hexadecimal digits (0..15) per byte, high digit first.
RECURSIVE Hex(_)
Hex(b) ==
    IF b = <<>> THEN <<>>
    ELSE <<b[1] \div 16, b[1] % 16>> \o Hex(Tail(b))

\* A diagnostic of the errors list: its wording and the numbers in it.
Diag(kind, a, b) == [kind |-> kind, a |-> a, b |-> b]

\* ddmm_scale <= 0
ScaleNotPositive(s) == s.mant <= 0

\* Whether abs(enc) / ddmm_scale is beyond the largest double (it is inf).
\* Of the scales tried only mant * 10^-DblMaxExp is small enough for an
\* int32: there abs(enc) / mant has to stay below the double's leading digits.
QuotientOverflows(enc, s) ==
    /\ s.exp = -DblMaxExp
    /\ \/ enc > DblMaxLead * s.mant
       \/ enc < -(DblMaxLead * s.mant)

\* The exception _ddmm_to_decimal_from_enc raises on enc, "" if it returns:
\* a non-positive scale is refused; of a quotient that is inf, ddmm // 100
\* is nan and int(nan) raises.
DdmmRaises(enc, s) ==
    IF ScaleNotPositive(s) THEN "ValueError: ddmm_scale must be positive."
    ELSE IF QuotientOverflows(enc, s)
         THEN "ValueError: cannot convert float NaN to integer"
    ELSE ""

\* The record at line 73.
EmptyResult(n) ==
    [raw_len |-> n, header |-> {}, current |-> {}, battery |-> {},
     iri_timer |-> {}, payload_present |-> FALSE, tlv |-> {},
     gnss_history |-> <<>>, recording_period |-> {}, unknown_tail |-> <<>>,
     errors |-> <<>>]

\* Mutant: the check lets one byte too many through.
RequireOffByOne(ix, n) == ix + n <= Len(data) + 1

\* require(n) with the cursor at ix: whether n more bytes are available.
Require(ix, n) == ix + n <= Len(data)

\* The diagnostic require(n) appends when it fails with the cursor at ix.
Truncated(ix, n) == Diag("Truncated", n, ix)

\* Mutant: the minimum is one byte too small.
TooShortBelow12(n) == n < MinFrameLen - 1

\* len(data) < 13
TooShort(n) == n < MinFrameLen

\* Mutant: one byte is taken for a recording period.
MissingRecordingPeriodBelow1(rem) == rem < RecPeriodSize - 1

\* rem < 2
MissingRecordingPeriod(rem) == rem < RecPeriodSize

\* Mutant: the recording period is not set aside.
HistoryEntriesOfRem(rem) == rem \div HistEntrySize

\* tail_for_history // 12
HistoryEntries(rem) == (rem - RecPeriodSize) \div HistEntrySize

\* tail_for_history % 12
Leftover(rem) == (rem - RecPeriodSize) % HistEntrySize

\* Mutant: the leftover is taken from the end of the buffer.
StartLeftoverAtEnd(lo) == Len(data) - lo

\* start_leftover and end_leftover
StartLeftover(lo) == Len(data) - (RecPeriodSize + lo)
EndLeftover == Len(data) - RecPeriodSize

\* ------------------------------------------------------------- state
Init ==
    /\ \E n \in 0 .. MaxLen, b1 \in Byte1Values, lat \in LatLeadValues,
          tl \in TlvLenValues :
          data = MkData(n, b1, lat, tl)
    /\ ddmm_scale \in ScaleValues
    /\ pc = "entry"
    /\ idx = 0
    /\ result = EmptyResult(Len(data))
    /\ reads = {}
    /\ has_payload = FALSE
    /\ history_entries = 0
    /\ leftover = 0
    /\ gnss_history = <<>>
    /\ i = 0
    /\ exc = ""

Locals == <<has_payload, history_entries, leftover, gnss_history, i>>

\* The call goes on at p with the cursor at ix and the record as r, having
\* read rd.
Continue(p, ix, r, rd) ==
    /\ pc' = p
    /\ idx' = ix
    /\ result' = r
    /\ reads' = reads \cup rd
    /\ UNCHANGED <<data, ddmm_scale, exc>>

\* return result, with the record as r.
Return(ix, r, rd) ==
    /\ Continue("returned", ix, r, rd)
    /\ UNCHANGED Locals

\* The exception e leaves the call.
Raise(e, ix, rd) ==
    /\ pc' = "raised"
    /\ exc' = e
    /\ idx' = ix
    /\ reads' = reads \cup rd
    /\ UNCHANGED <<data, ddmm_scale, result, Locals>>

AppendError(r, d) == [r EXCEPT !.errors = Append(@, d)]

\* Lines 94-96: the length precondition.
CheckLength ==
    /\ pc = "entry"
    /\ IF TooShort(Len(data))
       THEN Return(idx, AppendError(result,
                        Diag("TooShort", Len(data), MinFrameLen)), {})
       ELSE Continue("header", idx, result, {}) /\ UNCHANGED Locals

\* Lines 99-116: the header.
Header ==
    /\ pc = "header"
    /\ IF ~Require(idx, 2)
       THEN Return(idx, AppendError(result, Truncated(idx, 2)), {})
       ELSE LET rd == {<<idx, 1>>, <<idx + 1, 1>>}
                byte0 == ByteAt(idx)
                byte1 == ByteAt(idx + 1)
            IN  IF ~(InBuf(idx) /\ InBuf(idx + 1))
                THEN Raise("IndexError", idx, rd)
                ELSE /\ Continue("current", idx + 2,
                           [result EXCEPT
                              !.header = {[byte0 |-> byte0,
                                           byte1 |-> byte1,
                                           version |-> (byte0 \div 32) % 8,
                                           msg_type |-> byte0 % 32,
                                           has_payload |-> HasPayloadBit(byte1),
                                           needs_ack |-> (Bit(byte1, 1) = 1),
                                           low_power |-> (Bit(byte1, 2) = 1)]},
                              !.payload_present = HasPayloadBit(byte1)],
                           rd)
                     /\ has_payload' = HasPayloadBit(byte1)
                     /\ UNCHANGED <<history_entries, leftover, gnss_history, i>>

\* Lines 119-131: the current coordinates.
Current ==
    /\ pc = "current"
    /\ IF ~Require(idx, 8)
       THEN Return(idx, AppendError(result, Truncated(idx, 8)), {})
       ELSE LET rd == {<<idx, 4>>, <<idx + 4, 4>>}
                lat0_enc == SignedBE(Slice(idx, idx + 4))
                lon0_enc == SignedBE(Slice(idx + 4, idx + 8))
            IN  IF DdmmRaises(lat0_enc, ddmm_scale) # ""
                THEN Raise(DdmmRaises(lat0_enc, ddmm_scale), idx + 8, rd)
                ELSE IF DdmmRaises(lon0_enc, ddmm_scale) # ""
                THEN Raise(DdmmRaises(lon0_enc, ddmm_scale), idx + 8, rd)
                ELSE /\ Continue("battery", idx + 8,
                           [result EXCEPT
                              !.current = {[lat_enc |-> lat0_enc,
                                            lon_enc |-> lon0_enc]}],
                           rd)
                     /\ UNCHANGED Locals

\* Lines 134-136: the battery code.
Battery ==
    /\ pc = "battery"
    /\ IF ~Require(idx, 1)
       THEN Return(idx, AppendError(result, Truncated(idx, 1)), {})
       ELSE IF ~InBuf(idx)
       THEN Raise("IndexError", idx, {<<idx, 1>>})
       ELSE /\ Continue("timer", idx + 1,
                  [result EXCEPT !.battery = {[code |-> ByteAt(idx)]}],
                  {<<idx, 1>>})
            /\ UNCHANGED Locals

\* Lines 139-141: the Iridium timer.
Timer ==
    /\ pc = "timer"
    /\ IF ~Require(idx, 2)
       THEN Return(idx, AppendError(result, Truncated(idx, 2)), {})
       ELSE /\ Continue("branch", idx + 2,
                  [result EXCEPT
                     !.iri_timer = {[value |-> UnsignedBE(Slice(idx, idx + 2))]}],
                  {<<idx, 2>>})
            /\ UNCHANGED Locals

\* Lines 201-207: no payload bit; what follows the timer is the unknown tail.
NoPayload ==
    /\ pc = "branch"
    /\ ~has_payload
    /\ IF idx < Len(data)
       THEN LET tail == Slice(idx, Len(data))
                r == [result EXCEPT !.unknown_tail = tail]
            IN  Return(idx,
                       IF Len(tail) > 0
                       THEN AppendError(r, Diag("NoPayloadExtra", Len(tail), 0))
                       ELSE r,
                       {<<idx, Len(data) - idx>>})
       ELSE Return(idx, result, {})

\* Lines 144-155: the TLV header and value.
Tlv ==
    /\ pc = "branch"
    /\ has_payload
    /\ IF ~Require(idx, 2)
       THEN Return(idx, AppendError(result, Truncated(idx, 2)), {})
       ELSE LET rdh == {<<idx, 1>>, <<idx + 1, 1>>}
                tlv_type == ByteAt(idx)
                tlv_len == ByteAt(idx + 1)
                at == idx + 2
                tlv_value == Slice(at, at + tlv_len)
            IN  IF ~(InBuf(idx) /\ InBuf(idx + 1))
                THEN Raise("IndexError", idx, rdh)
                ELSE IF ~Require(at, tlv_len)
                THEN Return(at, AppendError(result, Truncated(at, tlv_len)), rdh)
                ELSE /\ Continue("rem", at + tlv_len,
                           [result EXCEPT
                              !.tlv = {[type |-> tlv_type,
                                        length |-> tlv_len,
                                        value_bytes_hex |-> Hex(tlv_value),
                                        value_bits_msb_first |->
                                            BytesToBitsMsbFirst(tlv_value)]}],
                           rdh \cup {<<at, tlv_len>>})
                     /\ UNCHANGED Locals

\* Lines 157-168: the bytes left for the history and the recording period.
Remaining ==
    /\ pc = "rem"
    /\ LET rem == Len(data) - idx
       IN  IF MissingRecordingPeriod(rem)
           THEN Return(idx,
                       [AppendError(result, Diag("MissingRecordingPeriod", 0, 0))
                          EXCEPT !.unknown_tail = Slice(idx, Len(data))],
                       {<<idx, rem>>})
           ELSE /\ Continue("history", idx, result, {})
                /\ history_entries' = HistoryEntries(rem)
                /\ leftover' = Leftover(rem)
                /\ gnss_history' = <<>>
                /\ i' = 0
                /\ UNCHANGED has_payload

\* Lines 169-186: one iteration of the history loop; a failed check leaves
\* the loop, and line 187 stores the entries collected.
HistoryEntry ==
    /\ pc = "history"
    /\ i < history_entries
    /\ IF ~Require(idx, HistEntrySize)
       THEN /\ Continue("recording", idx,
                  [AppendError(AppendError(result, Truncated(idx, HistEntrySize)),
                               Diag("TruncatedHistory", 0, 0))
                     EXCEPT !.gnss_history = gnss_history],
                  {})
            /\ UNCHANGED Locals
       ELSE LET rd == {<<idx, 4>>, <<idx + 4, 4>>, <<idx + 8, 4>>}
                lat_enc == SignedBE(Slice(idx, idx + 4))
                lon_enc == SignedBE(Slice(idx + 4, idx + 8))
                timestamp_enc == SignedBE(Slice(idx + 8, idx + 12))
            IN  IF DdmmRaises(lat_enc, ddmm_scale) # ""
                THEN Raise(DdmmRaises(lat_enc, ddmm_scale), idx + 12, rd)
                ELSE IF DdmmRaises(lon_enc, ddmm_scale) # ""
                THEN Raise(DdmmRaises(lon_enc, ddmm_scale), idx + 12, rd)
                ELSE /\ Continue("history", idx + 12, result, rd)
                     /\ gnss_history' = Append(gnss_history,
                                          [lat_enc |-> lat_enc,
                                           lon_enc |-> lon_enc,
                                           timestamp_enc |-> timestamp_enc])
                     /\ i' = i + 1
                     /\ UNCHANGED <<has_payload, history_entries, leftover>>

\* Line 187: the loop is over.
HistoryEnd ==
    /\ pc = "history"
    /\ i >= history_entries
    /\ Continue("recording", idx,
                [result EXCEPT !.gnss_history = gnss_history], {})
    /\ UNCHANGED Locals

\* Lines 189-192: the recording period, read at the cursor.
RecordingPeriod ==
    /\ pc = "recording"
    /\ IF ~Require(idx, 2)
       THEN Return(idx, AppendError(result, Truncated(idx, 2)), {})
       ELSE LET rd == {<<idx, 1>>, <<idx + 1, 1>>}
            IN  IF ~(InBuf(idx) /\ InBuf(idx + 1))
                THEN Raise("IndexError", idx, rd)
                ELSE /\ Continue("leftover", idx + 2,
                           [result EXCEPT
                              !.recording_period = {[hour |-> ByteAt(idx),
                                                     minute |-> ByteAt(idx + 1)]}],
                           rd)
                     /\ UNCHANGED Locals

\* Lines 194-200 and 207: the leftover of the history region.
LeftoverTail ==
    /\ pc = "leftover"
    /\ IF leftover # 0
       THEN Return(idx,
                   AppendError(
                       [result EXCEPT !.unknown_tail =
                           Slice(StartLeftover(leftover), EndLeftover)],
                       Diag("NonMultiple", leftover, 0)),
                   {<<StartLeftover(leftover), leftover>>})
       ELSE Return(idx, [result EXCEPT !.unknown_tail = <<>>], {})

Next ==
    \/ CheckLength
    \/ Header
    \/ Current
    \/ Battery
    \/ Timer
    \/ NoPayload
    \/ Tlv
    \/ Remaining
    \/ HistoryEntry
    \/ HistoryEnd
    \/ RecordingPeriod
    \/ LeftoverTail

Spec == Init /\ [][Next]_vars

\* ------------------------------------------------------------ claims
\* What the buffer says, read off data directly.
Returned == pc = "returned"
PayloadBitSet == Len(data) >= 2 /\ data[2] % 2 = 1
\* Offset of the first byte after the TLV value (the TLV header is at 13, 14).
TlvEnd == 15 + data[15]
\* H: the bytes between the TLV value and the final 2 bytes.
HistoryRegion == Len(data) - TlvEnd - 2
\* The history entry decoded from the 12 bytes at offset o.
EntryAt(o) ==
    [lat_enc |-> SignedBE(SubSeq(data, o + 1, o + 4)),
     lon_enc |-> SignedBE(SubSeq(data, o + 5, o + 8)),
     timestamp_enc |-> SignedBE(SubSeq(data, o + 9, o + 12))]
\* The fields decoded from the first 13 bytes.
First13Decoded ==
    /\ result.raw_len = Len(data)
    /\ result.header =
          {[byte0 |-> data[1], byte1 |-> data[2],
            version |-> data[1] \div 32, msg_type |-> data[1] % 32,
            has_payload |-> (data[2] % 2 = 1),
            needs_ack |-> ((data[2] \div 2) % 2 = 1),
            low_power |-> ((data[2] \div 4) % 2 = 1)]}
    /\ result.payload_present = (data[2] % 2 = 1)
    /\ result.current = {[lat_enc |-> SignedBE(SubSeq(data, 3, 6)),
                          lon_enc |-> SignedBE(SubSeq(data, 7, 10))]}
    /\ result.battery = {[code |-> data[11]]}
    /\ result.iri_timer = {[value |-> 256 * data[12] + data[13]]}

\* C1: at every step the cursor is within 0 .. len(data), and every read (a
\* byte, or a range of 2, 4, 12 or tlv_len bytes) lies inside the buffer.
C1_NeverReadsPastBuffer ==
    /\ idx >= 0
    /\ idx <= Len(data)
    /\ \A r \in reads : r[1] >= 0 /\ r[2] >= 0 /\ r[1] + r[2] <= Len(data)

\* C1 witness: a call that read a non-empty TLV value, a history entry and a
\* leftover has returned.
C1_Witness ==
    /\ Returned
    /\ \E r \in reads : r[1] = 15 /\ r[2] >= 1
    /\ Len(result.gnss_history) >= 1
    /\ Len(result.unknown_tail) >= 1
    /\ result.recording_period # {}

\* C2: whenever recording_period is populated, hour is the second-to-last
\* byte of the buffer and minute the last, whatever the history region's size.
C2_RecordingPeriodIsLastTwoBytes ==
    \A rp \in result.recording_period :
        /\ rp.hour = data[Len(data) - 1]
        /\ rp.minute = data[Len(data)]

\* C3: with a non-positive scale the call decodes nothing and returns no
\* record, whatever the buffer.
C3_NonPositiveScaleRaisesFirst ==
    ScaleNotPositive(ddmm_scale) =>
        /\ ~Returned
        /\ result = EmptyResult(Len(data))
        /\ reads = {}

\* C4: with a positive scale no exception leaves the call, whatever the
\* buffer.
C4_ValidConfigNeverRaises ==
    ~ScaleNotPositive(ddmm_scale) => pc # "raised" /\ exc = ""

\* C5: a buffer of fewer than 13 bytes is returned at once, nothing read,
\* as the empty record with raw_len and the one 'too short' diagnostic.
C5_ShortBufferEmptyRecord ==
    Len(data) < 13 =>
        /\ pc \in {"entry", "returned"}
        /\ idx = 0
        /\ reads = {}
        /\ Returned =>
              result = [EmptyResult(Len(data)) EXCEPT
                          !.errors = <<Diag("TooShort", Len(data), 13)>>]

\* C5 witness: a 12-byte buffer has been returned with its diagnostic.
C5_Witness ==
    /\ Returned
    /\ Len(data) = 12
    /\ Len(result.errors) = 1

\* C6: with at least 13 bytes and the payload bit clear, unknown_tail is the
\* bytes from offset 13 on, errors is the one 'extra bytes' diagnostic with
\* N = len - 13 (none when len = 13), and tlv, gnss_history and
\* recording_period stay empty.
C6_NoPayloadTail ==
    (Returned /\ Len(data) >= 13 /\ ~PayloadBitSet) =>
        /\ result.unknown_tail = SubSeq(data, 14, Len(data))
        /\ result.errors =
              IF Len(data) > 13
              THEN <<Diag("NoPayloadExtra", Len(data) - 13, 0)>>
              ELSE <<>>
        /\ result.tlv = {}
        /\ result.gnss_history = <<>>
        /\ result.recording_period = {}

\* C6 witness: a 16-byte buffer without the payload bit has been returned
\* with its 3 trailing bytes as the tail.
C6_Witness ==
    /\ Returned
    /\ Len(data) = 16
    /\ ~PayloadBitSet
    /\ Len(result.unknown_tail) = 3
    /\ Len(result.errors) = 1

\* C7: in the direct-scale variant a history region of 8*k + r bytes
\* (0 <= r < 8) yields k history entries and r unknown_tail bytes, with the
\* 'non-multiple' diagnostic when r # 0.
C7_EightByteEntries ==
    (Returned /\ PayloadBitSet /\ Len(data) >= 15 /\ HistoryRegion >= 0) =>
        /\ Len(result.gnss_history) = HistoryRegion \div 8
        /\ Len(result.unknown_tail) = HistoryRegion % 8
        /\ (HistoryRegion % 8 # 0) =>
              \E k \in 1 .. Len(result.errors) :
                  result.errors[k] = Diag("NonMultiple", HistoryRegion % 8, 0)

\* C8: when the payload bit is set and the TLV header, the TLV value or the
\* recording period cannot be read, the record returned holds the fields of
\* the first 13 bytes, no history, no recording period, the TLV only if its
\* value was read, exactly one diagnostic, and in the last case the bytes
\* left as unknown_tail.
C8_RequiredSectionMissing ==
    (Returned /\ PayloadBitSet /\ Len(data) >= 13) =>
        /\ Len(data) < 15 =>
              /\ First13Decoded
              /\ result.tlv = {}
              /\ result.gnss_history = <<>>
              /\ result.recording_period = {}
              /\ result.unknown_tail = <<>>
              /\ result.errors = <<Diag("Truncated", 2, 13)>>
        /\ (Len(data) >= 15 /\ Len(data) < TlvEnd) =>
              /\ First13Decoded
              /\ result.tlv = {}
              /\ result.gnss_history = <<>>
              /\ result.recording_period = {}
              /\ result.unknown_tail = <<>>
              /\ result.errors = <<Diag("Truncated", data[15], 15)>>
        /\ (Len(data) >= 15 /\ Len(data) >= TlvEnd /\ Len(data) - TlvEnd < 2) =>
              /\ First13Decoded
              /\ \E t \in result.tlv :
                    /\ result.tlv = {t}
                    /\ t.type = data[14]
                    /\ t.length = data[15]
                    /\ Len(t.value_bytes_hex) = 2 * data[15]
                    /\ Len(t.value_bits_msb_first) = 8 * data[15]
              /\ result.gnss_history = <<>>
              /\ result.recording_period = {}
              /\ result.unknown_tail = SubSeq(data, TlvEnd + 1, Len(data))
              /\ result.errors = <<Diag("MissingRecordingPeriod", 0, 0)>>

\* C8 witness: a call with a non-empty TLV value and one byte after it has
\* returned that byte as the tail.
C8_Witness ==
    /\ Returned
    /\ PayloadBitSet
    /\ Len(data) >= 15
    /\ data[15] >= 1
    /\ Len(data) = TlvEnd + 1
    /\ Len(result.unknown_tail) = 1

\* C9: with H >= 0 bytes between the TLV value and the final 2 bytes,
\* gnss_history has H div 12 entries, the k-th decoded from the k-th 12-byte
\* block after the TLV value; unknown_tail is the H mod 12 bytes right before
\* the final 2 bytes; the 'non-multiple' diagnostic is there if and only if
\* H mod 12 # 0.
C9_HistoryAndLeftover ==
    (Returned /\ PayloadBitSet /\ Len(data) >= 15 /\ HistoryRegion >= 0) =>
        /\ Len(result.gnss_history) = HistoryRegion \div 12
        /\ \A k \in 1 .. Len(result.gnss_history) :
              result.gnss_history[k] = EntryAt(TlvEnd + 12 * (k - 1))
        /\ result.unknown_tail =
              SubSeq(data, Len(data) - 2 - (HistoryRegion % 12) + 1,
                     Len(data) - 2)
        /\ (HistoryRegion % 12 = 0) => result.unknown_tail = <<>>
        /\ (HistoryRegion % 12 # 0) <=>
              \E k \in 1 .. Len(result.errors) :
                  result.errors[k].kind = "NonMultiple"
        /\ \A k \in 1 .. Len(result.errors) :
              result.errors[k].kind = "NonMultiple" =>
                  result.errors[k].a = HistoryRegion % 12

\* C9 witness: a call has returned two history entries and a leftover.
C9_Witness ==
    /\ Returned
    /\ PayloadBitSet
    /\ Len(result.gnss_history) = 2
    /\ Len(result.unknown_tail) >= 1

\* C10: with at least 13 bytes only the TLV-header check (2 bytes at 13) and
\* the TLV-value check (tlv_len bytes at 15) fail; 'Truncated inside GNSS
\* history' is never appended, the loop runs all its iterations, and errors
\* holds at most one entry.
C10_OnlyTlvChecksFail ==
    Len(data) >= 13 =>
        /\ Len(result.errors) <= 1
        /\ \A k \in 1 .. Len(result.errors) :
              /\ result.errors[k].kind # "TruncatedHistory"
              /\ result.errors[k].kind # "TooShort"
              /\ result.errors[k].kind = "Truncated" =>
                    \/ result.errors[k] = Diag("Truncated", 2, 13)
                    \/ /\ Len(data) >= 15
                       /\ result.errors[k] = Diag("Truncated", data[15], 15)
        /\ pc \in {"recording", "leftover"} =>
              Len(result.gnss_history) = history_entries

\* C10 witness: a call that ran the history loop and read the recording
\* period has returned with one diagnostic.
C10_Witness ==
    /\ Returned
    /\ Len(data) >= 13
    /\ Len(result.gnss_history) >= 1
    /\ result.recording_period # {}
    /\ Len(result.errors) = 1
====
